---- MODULE Spec2Model ----
(***************************************************************************)
(* The verification workflow state machine declared in                     *)
(* product-approach/infrastructure/step_functions_construct.py, modelled   *)
(* with the Amazon States Language semantics of the states it declares:    *)
(* Task states (LambdaInvoke) with result paths, retries and catchers,     *)
(* Pass states whose parameters rebuild the context, Choice states, and    *)
(* the state machine timeout.  The Lambda functions themselves are         *)
(* container images that are not part of the Python sources; their results *)
(* are modelled from the specification of the workflow.                    *)
(***************************************************************************)
EXTENDS FiniteSets, Integers, Sequences, TLC

VARIABLES
    input,      \* the execution input (immutable for one execution)
    ctx,        \* the JSON state threaded through the states ("$")
    pc,         \* the state the execution is in
    status,     \* execution status: RUNNING, SUCCEEDED, FAILED, TIMED_OUT
    attempt,    \* retries already made by the Task state the execution is in
    entered,    \* the states entered so far, in order
    completed,  \* the states that completed successfully
    failed,     \* the Task states that failed (after their retries)
    stored,     \* persistence sink: the final results stored by store_results
    notified,   \* persistence sink: number of notifications sent by notify
    table,        \* status API: the verification table
    event,        \* status API: the request handled last
    response,     \* status API: the response returned to it
    tableQueries, \* status API: keys the table was queried for
    s3Reads,      \* status API: S3 objects read for that request
    raisedIn      \* status API: the calls that raised during that request

\* The variables of the workflow execution and of the status API handler.
workflowVars ==
    <<input, ctx, pc, status, attempt, entered, completed, failed, stored, notified>>
handlerVars == <<table, event, response, tableQueries, s3Reads, raisedIn>>

vars == <<workflowVars, handlerVars>>

----------------------------------------------------------------------------
(* Bounds *)

\* number of verification ids the initialize function can assign
MaxId == 2
\* retries a Task state makes on Lambda service exceptions before it fails
MaxAttempts == 1

----------------------------------------------------------------------------
(* JSON values *)

\* The JSON object {} as an analysis value.
EmptyObj == "{}"

\* A JSON object value (a Lambda response) and a JSON array value.
Obj(v) == [tag |-> "object", val |-> v, items |-> <<>>]
Arr(s) == [tag |-> "array", val |-> "", items |-> s]

\* Writing value v at the top-level path $.f of the JSON object c.
Put(c, f, v) == [x \in (DOMAIN c) \cup {f} |-> IF x = f THEN v ELSE c[x]]

\* Is the top-level path $.f present in c.
Has(c, f) == f \in DOMAIN c

\* The intrinsic function States.Array(a, b): an array whose elements are
\* its arguments, in order.  The first argument here is itself an array.
StatesArray(a, b) == <<Arr(a), b>>

----------------------------------------------------------------------------
(* The states of the state machine *)

TaskStates ==
    {"Initialize", "FetchHistoricalVerification", "FetchImages",
     "PrepareSystemPrompt", "PrepareTurn1Prompt", "ExecuteTurn1",
     "ProcessTurn1Response", "PrepareTurn2Prompt", "ExecuteTurn2",
     "ProcessTurn2Response", "FinalizeResults", "StoreResults", "Notify",
     "HandleBedrockErrorTurn1", "HandleBedrockErrorTurn2",
     "FinalizeWithErrorTurn1", "FinalizeWithErrorTurn2"}

PassStates ==
    {"InitializeConversationState", "UpdateConversationStateAfterTurn1",
     "UpdateConversationStateAfterTurn2", "WorkflowComplete",
     "HandleInitializationError", "HandleHistoricalFetchError",
     "HandleFetchImagesError"}

ChoiceStates == {"CheckVerificationType", "ShouldNotify"}

ErrorMarkers ==
    {"HandleInitializationError", "HandleHistoricalFetchError",
     "HandleFetchImagesError"}

\* The typed failures of a delegated task.
ErrorKinds == {"Throttled", "ValidationFailed", "Timeout", "Unknown"}

\* Values a caller can put in the verificationType of the execution input.
VerificationTypes ==
    {"LAYOUT_VS_CHECKING", "PREVIOUS_VS_CURRENT", "previous_vs_current",
     "layout_vs_checking", "UNKNOWN_TYPE"}

\* The two values of the verificationType enum.
EnumTypes == {"LAYOUT_VS_CHECKING", "PREVIOUS_VS_CURRENT"}

\* ResultPath with the historical fetch written over verificationContext.
ResultPath_Clobber(s) ==
    CASE s \in {"Initialize", "FetchHistoricalVerification"} ->
            "verificationContext"
      [] s \in {"FetchImages", "HandleBedrockErrorTurn1",
                "HandleBedrockErrorTurn2"} -> "$"
      [] s = "PrepareSystemPrompt" -> "systemPrompt"
      [] s \in {"PrepareTurn1Prompt", "PrepareTurn2Prompt"} -> "currentPrompt"
      [] s = "ExecuteTurn1" -> "turn1Response"
      [] s = "ProcessTurn1Response" -> "referenceAnalysis"
      [] s = "ExecuteTurn2" -> "turn2Response"
      [] s = "ProcessTurn2Response" -> "checkingAnalysis"
      [] s = "StoreResults" -> "storageResult"
      [] s = "Notify" -> "notificationResult"
      [] OTHER -> "finalResults"

\* result_path of every Task state ("$" is the root of the context).
ResultPath(s) ==
    CASE s = "Initialize" -> "verificationContext"
      [] s = "FetchHistoricalVerification" -> "historicalContext"
      [] s = "FetchImages" -> "$"
      [] s = "PrepareSystemPrompt" -> "systemPrompt"
      [] s = "PrepareTurn1Prompt" -> "currentPrompt"
      [] s = "ExecuteTurn1" -> "turn1Response"
      [] s = "ProcessTurn1Response" -> "referenceAnalysis"
      [] s = "PrepareTurn2Prompt" -> "currentPrompt"
      [] s = "ExecuteTurn2" -> "turn2Response"
      [] s = "ProcessTurn2Response" -> "checkingAnalysis"
      [] s = "FinalizeResults" -> "finalResults"
      [] s = "StoreResults" -> "storageResult"
      [] s = "Notify" -> "notificationResult"
      [] s = "HandleBedrockErrorTurn1" -> "$"
      [] s = "HandleBedrockErrorTurn2" -> "$"
      [] s = "FinalizeWithErrorTurn1" -> "finalResults"
      [] s = "FinalizeWithErrorTurn2" -> "finalResults"

\* NextState whose turn 1 error handler goes back to ExecuteTurn1.
NextState_RetryTurn(s) ==
    CASE s = "Initialize" -> "CheckVerificationType"
      [] s = "FetchHistoricalVerification" -> "FetchImages"
      [] s = "FetchImages" -> "PrepareSystemPrompt"
      [] s = "PrepareSystemPrompt" -> "InitializeConversationState"
      [] s = "InitializeConversationState" -> "PrepareTurn1Prompt"
      [] s = "PrepareTurn1Prompt" -> "ExecuteTurn1"
      [] s = "ExecuteTurn1" -> "ProcessTurn1Response"
      [] s = "ProcessTurn1Response" -> "UpdateConversationStateAfterTurn1"
      [] s = "UpdateConversationStateAfterTurn1" -> "PrepareTurn2Prompt"
      [] s = "PrepareTurn2Prompt" -> "ExecuteTurn2"
      [] s = "ExecuteTurn2" -> "ProcessTurn2Response"
      [] s = "ProcessTurn2Response" -> "UpdateConversationStateAfterTurn2"
      [] s = "UpdateConversationStateAfterTurn2" -> "FinalizeResults"
      [] s = "FinalizeResults" -> "StoreResults"
      [] s = "StoreResults" -> "ShouldNotify"
      [] s = "Notify" -> "WorkflowComplete"
      [] s = "HandleBedrockErrorTurn1" -> "ExecuteTurn1"
      [] s = "FinalizeWithErrorTurn1" -> "StoreResults"
      [] s = "HandleBedrockErrorTurn2" -> "FinalizeWithErrorTurn2"
      [] s = "FinalizeWithErrorTurn2" -> "StoreResults"
      [] OTHER -> "END"

\* NextState whose turn 2 error finalizer is followed by FinalizeResults.
NextState_FinalizeTwice(s) ==
    CASE s = "Initialize" -> "CheckVerificationType"
      [] s = "FetchHistoricalVerification" -> "FetchImages"
      [] s = "FetchImages" -> "PrepareSystemPrompt"
      [] s = "PrepareSystemPrompt" -> "InitializeConversationState"
      [] s = "InitializeConversationState" -> "PrepareTurn1Prompt"
      [] s = "PrepareTurn1Prompt" -> "ExecuteTurn1"
      [] s = "ExecuteTurn1" -> "ProcessTurn1Response"
      [] s = "ProcessTurn1Response" -> "UpdateConversationStateAfterTurn1"
      [] s = "UpdateConversationStateAfterTurn1" -> "PrepareTurn2Prompt"
      [] s = "PrepareTurn2Prompt" -> "ExecuteTurn2"
      [] s = "ExecuteTurn2" -> "ProcessTurn2Response"
      [] s = "ProcessTurn2Response" -> "UpdateConversationStateAfterTurn2"
      [] s = "UpdateConversationStateAfterTurn2" -> "FinalizeResults"
      [] s = "FinalizeResults" -> "StoreResults"
      [] s = "StoreResults" -> "ShouldNotify"
      [] s = "Notify" -> "WorkflowComplete"
      [] s = "HandleBedrockErrorTurn1" -> "FinalizeWithErrorTurn1"
      [] s = "FinalizeWithErrorTurn1" -> "StoreResults"
      [] s = "HandleBedrockErrorTurn2" -> "FinalizeWithErrorTurn2"
      [] s = "FinalizeWithErrorTurn2" -> "FinalizeResults"
      [] OTHER -> "END"

\* The state a state's .next() leads to; "END" for a state without one.
NextState(s) ==
    CASE s = "Initialize" -> "CheckVerificationType"
      [] s = "FetchHistoricalVerification" -> "FetchImages"
      [] s = "FetchImages" -> "PrepareSystemPrompt"
      [] s = "PrepareSystemPrompt" -> "InitializeConversationState"
      [] s = "InitializeConversationState" -> "PrepareTurn1Prompt"
      [] s = "PrepareTurn1Prompt" -> "ExecuteTurn1"
      [] s = "ExecuteTurn1" -> "ProcessTurn1Response"
      [] s = "ProcessTurn1Response" -> "UpdateConversationStateAfterTurn1"
      [] s = "UpdateConversationStateAfterTurn1" -> "PrepareTurn2Prompt"
      [] s = "PrepareTurn2Prompt" -> "ExecuteTurn2"
      [] s = "ExecuteTurn2" -> "ProcessTurn2Response"
      [] s = "ProcessTurn2Response" -> "UpdateConversationStateAfterTurn2"
      [] s = "UpdateConversationStateAfterTurn2" -> "FinalizeResults"
      [] s = "FinalizeResults" -> "StoreResults"
      [] s = "StoreResults" -> "ShouldNotify"
      [] s = "Notify" -> "WorkflowComplete"
      [] s = "HandleBedrockErrorTurn1" -> "FinalizeWithErrorTurn1"
      [] s = "FinalizeWithErrorTurn1" -> "StoreResults"
      [] s = "HandleBedrockErrorTurn2" -> "FinalizeWithErrorTurn2"
      [] s = "FinalizeWithErrorTurn2" -> "StoreResults"
      [] OTHER -> "END"

\* Catcher with the FetchImages failure sent to the Bedrock error handler.
Catcher_ImagesToRecovery(s) ==
    CASE s = "Initialize" -> "HandleInitializationError"
      [] s = "FetchHistoricalVerification" -> "HandleHistoricalFetchError"
      [] s = "FetchImages" -> "HandleBedrockErrorTurn1"
      [] s = "ExecuteTurn1" -> "HandleBedrockErrorTurn1"
      [] s = "ExecuteTurn2" -> "HandleBedrockErrorTurn2"
      [] OTHER -> "NONE"

\* Catcher with one handler shared by the two turns.
Catcher_SharedHandler(s) ==
    CASE s = "Initialize" -> "HandleInitializationError"
      [] s = "FetchHistoricalVerification" -> "HandleHistoricalFetchError"
      [] s = "FetchImages" -> "HandleFetchImagesError"
      [] s = "ExecuteTurn1" -> "HandleBedrockErrorTurn2"
      [] s = "ExecuteTurn2" -> "HandleBedrockErrorTurn2"
      [] OTHER -> "NONE"

\* Catcher with the turns' catchers going straight to the finalizers.
Catcher_TurnFinalizer(s) ==
    CASE s = "Initialize" -> "HandleInitializationError"
      [] s = "FetchHistoricalVerification" -> "HandleHistoricalFetchError"
      [] s = "FetchImages" -> "HandleFetchImagesError"
      [] s = "ExecuteTurn1" -> "FinalizeWithErrorTurn1"
      [] s = "ExecuteTurn2" -> "FinalizeWithErrorTurn2"
      [] OTHER -> "NONE"

\* The handler of a state's add_catch(errors=["States.ALL"]); "NONE" for a
\* state that has no catcher.
Catcher(s) ==
    CASE s = "Initialize" -> "HandleInitializationError"
      [] s = "FetchHistoricalVerification" -> "HandleHistoricalFetchError"
      [] s = "FetchImages" -> "HandleFetchImagesError"
      [] s = "ExecuteTurn1" -> "HandleBedrockErrorTurn1"
      [] s = "ExecuteTurn2" -> "HandleBedrockErrorTurn2"
      [] OTHER -> "NONE"

\* CatchResultPath with the error output written at the root.
CatchResultPath_Root(s) == "$"

\* result_path of the catchers: the error output is written at $.error.
CatchResultPath(s) == "error"

\* Task states that retry on Lambda service exceptions: the flag is set on
\* the workflow tasks and is the construct's default for the others.
RetryOnServiceExceptions(s) == s \in TaskStates

\* VerificationTypeChoice whose default is a failure marker.
VerificationTypeChoice_NoDefault(c) ==
    IF c["verificationContext"].verificationType = "previous_vs_current"
    THEN "FetchHistoricalVerification"
    ELSE "HandleInitializationError"

\* The branch of CheckVerificationType, with its default.
VerificationTypeChoice(c) ==
    IF c["verificationContext"].verificationType = "previous_vs_current"
    THEN "FetchHistoricalVerification"
    ELSE "FetchImages"

\* ShouldNotifyChoice that ignores notificationEnabled.
ShouldNotifyChoice_Always(c) == "Notify"

\* The branch of ShouldNotify, with its default.
ShouldNotifyChoice(c) ==
    IF c["verificationContext"].notificationEnabled = TRUE
    THEN "Notify"
    ELSE "WorkflowComplete"

----------------------------------------------------------------------------
(* Paths read by the states *)

\* Is the path p (one or two keys below the root) present in c.
PathPresent(c, p) ==
    IF Len(p) = 1
    THEN Has(c, p[1])
    ELSE Has(c, p[1]) /\ p[2] \in DOMAIN c[p[1]]

\* The fields every context-rebuilding state and prompt payload reads.
CommonPaths ==
    {<<"verificationContext">>, <<"images">>, <<"systemPrompt">>,
     <<"historicalContext">>}

\* The context paths referenced by the parameters of a Pass state, by the
\* payload of a Task state or by the variable of a Choice state.  A Task
\* state without a payload passes the whole context and reads no path.
ReadPaths(s) ==
    CASE s = "CheckVerificationType" ->
            {<<"verificationContext", "verificationType">>}
      [] s = "InitializeConversationState" -> CommonPaths
      [] s = "PrepareTurn1Prompt" ->
            CommonPaths \cup {<<"conversationState">>}
      [] s = "UpdateConversationStateAfterTurn1" ->
            CommonPaths \cup
            {<<"currentPrompt">>, <<"turn1Response">>, <<"referenceAnalysis">>,
             <<"conversationState", "history">>,
             <<"conversationState", "checkingAnalysis">>}
      [] s = "PrepareTurn2Prompt" ->
            CommonPaths \cup {<<"conversationState">>, <<"referenceAnalysis">>}
      [] s = "UpdateConversationStateAfterTurn2" ->
            CommonPaths \cup
            {<<"currentPrompt">>, <<"turn1Response">>, <<"turn2Response">>,
             <<"referenceAnalysis">>, <<"checkingAnalysis">>,
             <<"conversationState", "history">>}
      [] s = "ShouldNotify" ->
            {<<"verificationContext", "notificationEnabled">>}
      [] s = "WorkflowComplete" ->
            {<<"verificationContext", "verificationId">>,
             <<"verificationContext", "verificationType">>,
             <<"finalResults", "verificationStatus">>,
             <<"storageResult", "resultImageUrl">>,
             <<"finalResults", "confidenceScore">>,
             <<"finalResults", "discrepanciesCount">>}
      [] OTHER -> {}

\* All the paths a state reads resolve in c.
PathsResolve(s, c) == \A p \in ReadPaths(s) : PathPresent(c, p)

----------------------------------------------------------------------------
(* Pass states *)

\* parameters of InitializeConversationState.
InitializeConversationStateParameters(c) ==
    [verificationContext |-> c["verificationContext"],
     images |-> c["images"],
     systemPrompt |-> c["systemPrompt"],
     historicalContext |-> c["historicalContext"],
     conversationState |->
        [currentTurn |-> 0,
         maxTurns |-> 2,
         history |-> <<>>,
         referenceAnalysis |-> EmptyObj,
         checkingAnalysis |-> EmptyObj]]

\* UpdateConversationStateAfterTurn1Parameters without currentPrompt.
UpdateConversationStateAfterTurn1Parameters_DropsPrompt(c) ==
    [verificationContext |-> c["verificationContext"],
     images |-> c["images"],
     systemPrompt |-> c["systemPrompt"],
     historicalContext |-> c["historicalContext"],
     turn1Response |-> c["turn1Response"],
     referenceAnalysis |-> c["referenceAnalysis"],
     conversationState |->
        [currentTurn |-> 1,
         maxTurns |-> 2,
         history |-> StatesArray(c["conversationState"].history,
                                 c["turn1Response"]),
         referenceAnalysis |-> c["referenceAnalysis"],
         checkingAnalysis |-> c["conversationState"].checkingAnalysis]]

\* parameters of UpdateConversationStateAfterTurn1.
UpdateConversationStateAfterTurn1Parameters(c) ==
    [verificationContext |-> c["verificationContext"],
     images |-> c["images"],
     systemPrompt |-> c["systemPrompt"],
     historicalContext |-> c["historicalContext"],
     currentPrompt |-> c["currentPrompt"],
     turn1Response |-> c["turn1Response"],
     referenceAnalysis |-> c["referenceAnalysis"],
     conversationState |->
        [currentTurn |-> 1,
         maxTurns |-> 2,
         history |-> StatesArray(c["conversationState"].history,
                                 c["turn1Response"]),
         referenceAnalysis |-> c["referenceAnalysis"],
         checkingAnalysis |-> c["conversationState"].checkingAnalysis]]

\* UpdateConversationStateAfterTurn2Parameters that leaves currentTurn at 1.
UpdateConversationStateAfterTurn2Parameters_StaleTurn(c) ==
    [verificationContext |-> c["verificationContext"],
     images |-> c["images"],
     systemPrompt |-> c["systemPrompt"],
     historicalContext |-> c["historicalContext"],
     currentPrompt |-> c["currentPrompt"],
     turn1Response |-> c["turn1Response"],
     turn2Response |-> c["turn2Response"],
     referenceAnalysis |-> c["referenceAnalysis"],
     checkingAnalysis |-> c["checkingAnalysis"],
     conversationState |->
        [currentTurn |-> 1,
         maxTurns |-> 2,
         history |-> StatesArray(c["conversationState"].history,
                                 c["turn2Response"]),
         referenceAnalysis |-> c["referenceAnalysis"],
         checkingAnalysis |-> c["checkingAnalysis"]]]

\* UpdateConversationStateAfterTurn2Parameters that keeps the conversation's
\* checkingAnalysis of before turn 2.
UpdateConversationStateAfterTurn2Parameters_StaleAnalysis(c) ==
    [verificationContext |-> c["verificationContext"],
     images |-> c["images"],
     systemPrompt |-> c["systemPrompt"],
     historicalContext |-> c["historicalContext"],
     currentPrompt |-> c["currentPrompt"],
     turn1Response |-> c["turn1Response"],
     turn2Response |-> c["turn2Response"],
     referenceAnalysis |-> c["referenceAnalysis"],
     checkingAnalysis |-> c["checkingAnalysis"],
     conversationState |->
        [currentTurn |-> 2,
         maxTurns |-> 2,
         history |-> StatesArray(c["conversationState"].history,
                                 c["turn2Response"]),
         referenceAnalysis |-> c["referenceAnalysis"],
         checkingAnalysis |-> c["conversationState"].checkingAnalysis]]

\* parameters of UpdateConversationStateAfterTurn2.
UpdateConversationStateAfterTurn2Parameters(c) ==
    [verificationContext |-> c["verificationContext"],
     images |-> c["images"],
     systemPrompt |-> c["systemPrompt"],
     historicalContext |-> c["historicalContext"],
     currentPrompt |-> c["currentPrompt"],
     turn1Response |-> c["turn1Response"],
     turn2Response |-> c["turn2Response"],
     referenceAnalysis |-> c["referenceAnalysis"],
     checkingAnalysis |-> c["checkingAnalysis"],
     conversationState |->
        [currentTurn |-> 2,
         maxTurns |-> 2,
         history |-> StatesArray(c["conversationState"].history,
                                 c["turn2Response"]),
         referenceAnalysis |-> c["referenceAnalysis"],
         checkingAnalysis |-> c["checkingAnalysis"]]]

\* parameters of WorkflowComplete.
WorkflowCompleteParameters(c) ==
    [verificationId |-> c["verificationContext"].verificationId,
     verificationType |-> c["verificationContext"].verificationType,
     status |-> "COMPLETED",
     timestamp |-> "State.EnteredTime",
     result |->
        [verificationStatus |-> c["finalResults"].verificationStatus,
         resultImageUrl |-> c["storageResult"].resultImageUrl,
         confidenceScore |-> c["finalResults"].confidenceScore,
         discrepanciesCount |-> c["finalResults"].discrepanciesCount]]

\* parameters of the three early-failure markers.
ErrorMarkerParameters(s) ==
    [status |-> "FAILED",
     error |->
        CASE s = "HandleInitializationError" ->
                "Failed to initialize verification process"
          [] s = "HandleHistoricalFetchError" ->
                "Failed to retrieve historical verification data"
          [] s = "HandleFetchImagesError" ->
                "Failed to fetch images or metadata"]

\* The effective result of a Pass state: its parameters evaluated on c.
PassParameters(s, c) ==
    CASE s = "InitializeConversationState" ->
            InitializeConversationStateParameters(c)
      [] s = "UpdateConversationStateAfterTurn1" ->
            UpdateConversationStateAfterTurn1Parameters(c)
      [] s = "UpdateConversationStateAfterTurn2" ->
            UpdateConversationStateAfterTurn2Parameters(c)
      [] s = "WorkflowComplete" -> WorkflowCompleteParameters(c)
      [] OTHER -> ErrorMarkerParameters(s)

\* result_path of a Pass state: the early-failure markers write at $.error,
\* the others have none and replace the whole context.
PassResultPath(s) == IF s \in ErrorMarkers THEN "error" ELSE "$"

\* Writing a result at a result path: the root replaces the context.
ApplyResult(c, path, v) == IF path = "$" THEN v ELSE Put(c, path, v)

----------------------------------------------------------------------------
(* The delegated tasks (Lambda functions) *)

\* The final verdicts finalize_results can produce.
Verdicts == {"CORRECT", "INCORRECT"}

\* initialize: creates the verification context of the request.
initialize(c, id) ==
    [verificationId |-> id,
     verificationType |-> c["verificationType"],
     notificationEnabled |-> c["notificationEnabled"]]

\* fetch_historical_verification: the previous verification.
fetch_historical_verification(c) ==
    [previousVerificationId |-> 0, previousVerificationStatus |-> "CORRECT"]

\* fetch_images: the context it was given, with the fetched images.
fetch_images(c) == Put(c, "images", "images")

\* prepare_system_prompt.
prepare_system_prompt(c) == "systemPrompt"

\* prepare_turn_prompt, for the turn number of its payload.
prepare_turn_prompt(turnNumber) == [turnNumber |-> turnNumber]

\* invoke_bedrock: the response to the current prompt.
invoke_bedrock(c) == Obj(c["currentPrompt"].turnNumber)

\* process_turn1_response and process_turn2_response: a populated analysis.
process_turn1_response(c) == "referenceAnalysis"
process_turn2_response(c) == "checkingAnalysis"

\* finalize_results: the FinalResult of a complete conversation.
finalize_results(c, verdict) ==
    [verificationStatus |-> verdict,
     confidenceScore |-> 1,
     discrepanciesCount |-> 0,
     referenceAnalysis |-> c["referenceAnalysis"]]

\* finalize_with_error: a FAILED FinalResult that keeps the partial
\* analysis present in the context.
finalize_with_error(c) ==
    [verificationStatus |-> "FAILED",
     confidenceScore |-> 0,
     discrepanciesCount |-> 0,
     referenceAnalysis |->
        IF Has(c, "referenceAnalysis") THEN c["referenceAnalysis"]
        ELSE EmptyObj]

\* handle_bedrock_error: the context it was given, with the raised error
\* classified in the error descriptor.
handle_bedrock_error(c) ==
    Put(c, "error",
        [Error |-> IF Has(c, "error") THEN c["error"].Error ELSE "Unknown",
         classified |-> TRUE])

\* store_results and notify: what they return to the state machine.
store_results(c) == [resultImageUrl |-> "resultImageUrl"]
notify(c) == "notificationResult"

\* The result of the Lambda function a Task state invokes.
LambdaResult(s, c, id, verdict) ==
    CASE s = "Initialize" -> initialize(c, id)
      [] s = "FetchHistoricalVerification" -> fetch_historical_verification(c)
      [] s = "FetchImages" -> fetch_images(c)
      [] s = "PrepareSystemPrompt" -> prepare_system_prompt(c)
      [] s = "PrepareTurn1Prompt" -> prepare_turn_prompt(1)
      [] s = "PrepareTurn2Prompt" -> prepare_turn_prompt(2)
      [] s \in {"ExecuteTurn1", "ExecuteTurn2"} -> invoke_bedrock(c)
      [] s = "ProcessTurn1Response" -> process_turn1_response(c)
      [] s = "ProcessTurn2Response" -> process_turn2_response(c)
      [] s = "FinalizeResults" -> finalize_results(c, verdict)
      [] s = "StoreResults" -> store_results(c)
      [] s = "Notify" -> notify(c)
      [] s \in {"HandleBedrockErrorTurn1", "HandleBedrockErrorTurn2"} ->
            handle_bedrock_error(c)
      [] s \in {"FinalizeWithErrorTurn1", "FinalizeWithErrorTurn2"} ->
            finalize_with_error(c)

(***************************************************************************)
(* The verification status API handler,                                    *)
(* prod/api-function/api_verifications/status/lambda_function.py           *)
(***************************************************************************)

\* Python's None, and the truth value of a string or None.
NoneVal == "<None>"
Truthy(v) == v \notin {NoneVal, ""}

\* A JSON null and a JSON object of string entries (API Gateway sends the
\* path and query string parameters as one or the other).
Null == [kind |-> "null", entries |-> <<>>]
Dict(entries) == [kind |-> "dict", entries |-> entries]

\* dict.get(key) on such a value, and the truth value of the value itself:
\* None and the empty dict are false.
DictGet(d, k) == IF k \in DOMAIN d.entries THEN d.entries[k] ELSE NoneVal
DictTruthy(d) == d.kind = "dict" /\ DOMAIN d.entries # {}

\* The verification ids of the requests and of the table.
VerificationIds == {"verif-1", "verif-2"}

\* The parameter objects of a request.
ParamValues ==
    {Null, Dict([k \in {} |-> ""]), Dict([k \in {"other"} |-> "x"]),
     Dict([k \in {"verificationId"} |-> ""])}
    \cup {Dict([k \in {"verificationId"} |-> id]) : id \in VerificationIds}

\* The HTTP methods of a request (NoneVal: the event has no httpMethod).
HttpMethods == {"GET", "OPTIONS", "POST", NoneVal}

\* The requests.
Events ==
    [httpMethod : HttpMethods,
     pathParameters : ParamValues,
     queryStringParameters : ParamValues]

\* Values of the currentStatus, verificationStatus and turn2ProcessedPath
\* attributes of a verification record ("" also stands for a missing
\* attribute, which record.get reads as '' or None).
CurrentStatuses ==
    {"COMPLETED", "RUNNING", "TURN1_COMPLETED", "TURN2_RUNNING", "PROCESSING",
     "FAILED", "ERROR", "", "INITIALIZED"}
RecordVerificationStatuses == {"PENDING", "", "CORRECT", "INCORRECT"}

\* An s3 path as get_s3_content sees it: whether it starts with s3:// and
\* whether the rest has a bucket and a key separated by a slash.
S3Paths ==
    {[text |-> "", s3scheme |-> FALSE, hasKey |-> FALSE],
     [text |-> "http://bucket/turn2.md", s3scheme |-> FALSE, hasKey |-> TRUE],
     [text |-> "s3://bucket", s3scheme |-> TRUE, hasKey |-> FALSE],
     [text |-> "s3://bucket/turn2.md", s3scheme |-> TRUE, hasKey |-> TRUE]}

\* The verification records a table can hold for an id.
Records(id) ==
    [verificationId : {id},
     currentStatus : CurrentStatuses,
     verificationStatus : RecordVerificationStatuses,
     turn2ProcessedPath : S3Paths]

\* The verification tables: the items of each id, most recent first.
Tables ==
    {[id \in VerificationIds |-> IF id = "verif-1" THEN items ELSE <<>>] :
        items \in {<<>>} \cup {<<r>> : r \in Records("verif-1")}}

\* The CORS headers of every response.
CorsHeaders ==
    [ContentType |-> "application/json",
     AccessControlAllowOrigin |-> "*",
     AccessControlAllowCredentials |-> "true",
     AccessControlAllowHeaders |->
        "Content-Type,X-Amz-Date,Authorization,X-Api-Key,X-Amz-Security-Token",
     AccessControlAllowMethods |-> "GET,OPTIONS"]

\* create_error_response.
create_error_response(status_code, error, message, headers) ==
    [statusCode |-> status_code,
     headers |-> headers,
     body |-> [error |-> error, message |-> message, code |-> status_code]]

\* An overall status that consults verificationStatus first.
determine_overall_status_VerificationFirst(current_status, verification_status) ==
    IF verification_status \in {"PENDING", ""} THEN "RUNNING"
    ELSE IF current_status \in {"FAILED", "ERROR"} THEN "FAILED"
    ELSE "COMPLETED"

\* determine_overall_status.
determine_overall_status(current_status, verification_status) ==
    IF current_status = "COMPLETED" THEN "COMPLETED"
    ELSE IF current_status \in
              {"RUNNING", "TURN1_COMPLETED", "TURN2_RUNNING", "PROCESSING"}
         THEN "RUNNING"
    ELSE IF current_status \in {"FAILED", "ERROR"} THEN "FAILED"
    ELSE IF verification_status \in {"PENDING", ""} THEN "RUNNING"
    ELSE "COMPLETED"

\* get_status_message.
get_status_message(st, verification_status) ==
    IF st = "COMPLETED"
    THEN IF verification_status = "CORRECT"
         THEN "Verification completed successfully - No discrepancies found"
         ELSE IF verification_status = "INCORRECT"
              THEN "Verification completed - Discrepancies detected"
              ELSE "Verification completed"
    ELSE IF st = "RUNNING" THEN "Verification is currently in progress"
    ELSE IF st = "FAILED" THEN "Verification failed during processing"
    ELSE "Verification status unknown"

\* Outcomes of the S3 get_object call and of the table query.
S3Outcomes == {"content", "empty", "ClientError"}
TableOutcomes == {"items", "ClientError"}

\* get_s3_content: the content read (NoneVal for an invalid path), whether
\* it raised, and the number of S3 objects read.
get_s3_content(s3_path, s3Outcome) ==
    IF ~ Truthy(s3_path.text) \/ ~ s3_path.s3scheme
    THEN [content |-> NoneVal, raised |-> FALSE, reads |-> 0]
    ELSE IF ~ s3_path.hasKey
    THEN [content |-> NoneVal, raised |-> FALSE, reads |-> 0]
    ELSE IF s3Outcome = "ClientError"
    THEN [content |-> NoneVal, raised |-> TRUE, reads |-> 1]
    ELSE [content |-> IF s3Outcome = "empty" THEN "" ELSE "LLM Response Content",
          raised |-> FALSE, reads |-> 1]

\* A lookup that queries the table for one fixed key.
get_verification_record_FixedKey(t, verification_id, tableOutcome) ==
    IF tableOutcome = "ClientError"
    THEN [found |-> FALSE, raised |-> TRUE, items |-> <<>>,
          queries |-> <<"verif-1">>]
    ELSE [found |-> t["verif-1"] # <<>>, raised |-> FALSE,
          items |-> t["verif-1"], queries |-> <<"verif-1">>]

\* get_verification_record: the items the query returns for the id (at most
\* one, the most recent), whether the query raised, and the keys queried.
get_verification_record(t, verification_id, tableOutcome) ==
    IF tableOutcome = "ClientError"
    THEN [found |-> FALSE, raised |-> TRUE, items |-> <<>>, queries |-> <<verification_id>>]
    ELSE LET items == IF verification_id \in DOMAIN t
                      THEN t[verification_id] ELSE <<>>
         IN  [found |-> items # <<>>, raised |-> FALSE,
              items |-> items, queries |-> <<verification_id>>]

\* build_status_response that reads the S3 object whatever the status.
build_status_response_AlwaysReads(record, s3Outcome) ==
    LET current_status == record.currentStatus
        verification_status == record.verificationStatus
        st == determine_overall_status(current_status, verification_status)
        base == [verificationId |-> record.verificationId,
                 message |-> get_status_message(st, verification_status),
                 status |-> st,
                 currentStatus |-> current_status,
                 verificationStatus |-> verification_status,
                 s3References |->
                    [turn2Processed |-> record.turn2ProcessedPath.text]]
        readS3 == Truthy(record.turn2ProcessedPath.text)
        s3 == get_s3_content(record.turn2ProcessedPath, s3Outcome)
    IN  IF readS3
        THEN [response |->
                 IF ~ s3.raised /\ Truthy(s3.content)
                 THEN Put(base, "llmAnalysis", s3.content)
                 ELSE base,
              reads |-> s3.reads,
              raisedIn |-> IF s3.raised THEN {"get_object"} ELSE {}]
        ELSE [response |-> base, reads |-> 0, raisedIn |-> {}]

\* build_status_response: the response dict, the S3 objects read and the
\* calls that raised (and were caught).
build_status_response(record, s3Outcome) ==
    LET current_status == record.currentStatus
        verification_status == record.verificationStatus
        st == determine_overall_status(current_status, verification_status)
        base == [verificationId |-> record.verificationId,
                 message |-> get_status_message(st, verification_status),
                 status |-> st,
                 currentStatus |-> current_status,
                 verificationStatus |-> verification_status,
                 s3References |->
                    [turn2Processed |-> record.turn2ProcessedPath.text]]
        readS3 == st = "COMPLETED" /\ Truthy(record.turn2ProcessedPath.text)
        s3 == get_s3_content(record.turn2ProcessedPath, s3Outcome)
    IN  IF readS3
        THEN [response |->
                 IF ~ s3.raised /\ Truthy(s3.content)
                 THEN Put(base, "llmAnalysis", s3.content)
                 ELSE base,
              reads |-> s3.reads,
              raisedIn |-> IF s3.raised THEN {"get_object"} ELSE {}]
        ELSE [response |-> base, reads |-> 0, raisedIn |-> {}]

\* An extraction that prefers the query string parameter.
ExtractVerificationId_QueryFirst(e) ==
    LET query_id == IF DictTruthy(e.queryStringParameters)
                    THEN DictGet(e.queryStringParameters, "verificationId")
                    ELSE NoneVal
    IN  IF Truthy(query_id) THEN query_id
        ELSE IF DictTruthy(e.pathParameters)
             THEN DictGet(e.pathParameters, "verificationId")
             ELSE query_id

\* The verification id a request carries: the path parameter, else the
\* query string parameter.
ExtractVerificationId(e) ==
    LET path_id == IF DictTruthy(e.pathParameters)
                   THEN DictGet(e.pathParameters, "verificationId")
                   ELSE NoneVal
    IN  IF Truthy(path_id) THEN path_id
        ELSE IF DictTruthy(e.queryStringParameters)
             THEN DictGet(e.queryStringParameters, "verificationId")
             ELSE path_id

\* A method gate that lets every method but OPTIONS through.
MethodGate_OptionsOnly(e) ==
    IF e.httpMethod = "OPTIONS" THEN "options" ELSE "get"

\* The method gate of lambda_handler: "options" and "not_allowed" answer
\* the request at once, "get" lets it through.
MethodGate(e) ==
    IF e.httpMethod = "OPTIONS" THEN "options"
    ELSE IF e.httpMethod # "GET" THEN "not_allowed"
    ELSE "get"

\* No response has been returned yet.
NoResponse == [statusCode |-> 0, headers |-> CorsHeaders, body |-> [empty |-> TRUE]]

\* What lambda_handler does without any AWS call.
NoCalls(resp) == [response |-> resp, queries |-> <<>>, reads |-> 0, raisedIn |-> {}]

\* lambda_handler without the try/except around the table query: the
\* exception of the query escapes and no response is returned.
HandlerResult_Unguarded(e, t, tableOutcome, s3Outcome, dumpsOk) ==
    LET headers == CorsHeaders
        verification_id == ExtractVerificationId(e)
        rec == get_verification_record(t, verification_id, tableOutcome)
        built == build_status_response(rec.items[1], s3Outcome)
        error500 == create_error_response(500, "Internal server error",
                                          "Failed to process request", headers)
    IN  IF MethodGate(e) = "options"
        THEN NoCalls([statusCode |-> 200, headers |-> headers,
                      body |-> [empty |-> TRUE]])
        ELSE IF MethodGate(e) = "not_allowed"
        THEN NoCalls(create_error_response(405, "Method not allowed",
                        "Only GET requests are supported", headers))
        ELSE IF ~ Truthy(verification_id)
        THEN NoCalls(create_error_response(400, "Missing parameter",
                        "verificationId path or query parameter is required",
                        headers))
        ELSE IF rec.raised
        THEN [response |-> NoResponse, queries |-> rec.queries, reads |-> 0,
              raisedIn |-> {"query"}]
        ELSE IF ~ rec.found
        THEN [response |-> create_error_response(404, "Verification not found",
                              "No verification found for verificationId",
                              headers),
              queries |-> rec.queries, reads |-> 0, raisedIn |-> {}]
        ELSE IF ~ dumpsOk
        THEN [response |-> error500, queries |-> rec.queries,
              reads |-> built.reads,
              raisedIn |-> built.raisedIn \cup {"dumps"}]
        ELSE [response |-> [statusCode |-> 200, headers |-> headers,
                            body |-> built.response],
              queries |-> rec.queries, reads |-> built.reads,
              raisedIn |-> built.raisedIn]

\* lambda_handler on event e with table t: the response returned, the
\* keys the table was queried for, the S3 reads made and the calls that
\* raised.  tableOutcome
\* and s3Outcome are the outcomes of the AWS calls, dumpsOk whether
\* json.dumps can serialize the response dict.
HandlerResult(e, t, tableOutcome, s3Outcome, dumpsOk) ==
    LET headers == CorsHeaders
        verification_id == ExtractVerificationId(e)
        rec == get_verification_record(t, verification_id, tableOutcome)
        built == build_status_response(rec.items[1], s3Outcome)
        error500 == create_error_response(500, "Internal server error",
                                          "Failed to process request", headers)
    IN  IF MethodGate(e) = "options"
        THEN NoCalls([statusCode |-> 200, headers |-> headers,
                      body |-> [empty |-> TRUE]])
        ELSE IF MethodGate(e) = "not_allowed"
        THEN NoCalls(create_error_response(405, "Method not allowed",
                        "Only GET requests are supported", headers))
        ELSE IF ~ Truthy(verification_id)
        THEN NoCalls(create_error_response(400, "Missing parameter",
                        "verificationId path or query parameter is required",
                        headers))
        ELSE IF rec.raised
        THEN [response |-> error500, queries |-> rec.queries, reads |-> 0,
              raisedIn |-> {"query"}]
        ELSE IF ~ rec.found
        THEN [response |-> create_error_response(404, "Verification not found",
                              "No verification found for verificationId",
                              headers),
              queries |-> rec.queries, reads |-> 0, raisedIn |-> {}]
        ELSE IF ~ dumpsOk
        THEN [response |-> error500, queries |-> rec.queries,
              reads |-> built.reads,
              raisedIn |-> built.raisedIn \cup {"dumps"}]
        ELSE [response |-> [statusCode |-> 200, headers |-> headers,
                            body |-> built.response],
              queries |-> rec.queries, reads |-> built.reads,
              raisedIn |-> built.raisedIn]

\* The state of the handler before any request: no request handled.
NoEvent ==
    [httpMethod |-> NoneVal, pathParameters |-> Null,
     queryStringParameters |-> Null]

\* The status API is not used during a workflow execution.
HandlerIdle ==
    /\ table = [id \in VerificationIds |-> <<>>]
    /\ event = NoEvent
    /\ response = NoResponse
    /\ tableQueries = <<>>
    /\ s3Reads = 0
    /\ raisedIn = {}

----------------------------------------------------------------------------
(* The execution *)

Init ==
    /\ input \in [verificationType : VerificationTypes,
                  notificationEnabled : BOOLEAN]
    /\ ctx = input
    /\ pc = "Initialize"
    /\ status = "RUNNING"
    /\ attempt = 0
    /\ entered = <<"Initialize">>
    /\ completed = {}
    /\ failed = {}
    /\ stored = <<>>
    /\ notified = 0
    /\ HandlerIdle

\* Transition to the next state, or the end of the execution.
Goto(next) ==
    IF next = "END"
    THEN /\ status' = "SUCCEEDED"
         /\ UNCHANGED <<pc, entered>>
    ELSE /\ pc' = next
         /\ entered' = Append(entered, next)
         /\ UNCHANGED status

\* A Task state succeeds: the Lambda result is written at its result path.
TaskSucceed(s) ==
    /\ status = "RUNNING" /\ pc = s /\ s \in TaskStates
    /\ PathsResolve(s, ctx)
    /\ \E id \in 1..MaxId, verdict \in Verdicts :
          ctx' = ApplyResult(ctx, ResultPath(s), LambdaResult(s, ctx, id, verdict))
    /\ stored' = IF s = "StoreResults"
                 THEN Append(stored, ctx["finalResults"])
                 ELSE stored
    /\ notified' = IF s = "Notify" THEN notified + 1 ELSE notified
    /\ completed' = completed \cup {s}
    /\ attempt' = 0
    /\ Goto(NextState(s))
    /\ UNCHANGED <<input, failed>>
    /\ UNCHANGED handlerVars

\* A Task state whose retries are not bounded.
TaskRetry_Unbounded(s) ==
    /\ status = "RUNNING" /\ pc = s /\ s \in TaskStates
    /\ PathsResolve(s, ctx)
    /\ RetryOnServiceExceptions(s)
    /\ attempt' = (attempt + 1) % (MaxAttempts + 1)
    /\ UNCHANGED <<input, ctx, pc, status, entered, completed, failed, stored, notified>>
    /\ UNCHANGED handlerVars

\* A Task state hits a Lambda service exception and retries.
TaskRetry(s) ==
    /\ status = "RUNNING" /\ pc = s /\ s \in TaskStates
    /\ PathsResolve(s, ctx)
    /\ RetryOnServiceExceptions(s)
    /\ attempt < MaxAttempts
    /\ attempt' = attempt + 1
    /\ UNCHANGED <<input, ctx, pc, status, entered, completed, failed, stored, notified>>
    /\ UNCHANGED handlerVars

\* A Task state with a catcher fails: the error output is written at the
\* catcher's result path and the execution moves to the handler.
TaskCaught(s) ==
    /\ status = "RUNNING" /\ pc = s /\ s \in TaskStates
    /\ PathsResolve(s, ctx)
    /\ Catcher(s) # "NONE"
    /\ \E k \in ErrorKinds :
          ctx' = ApplyResult(ctx, CatchResultPath(s),
                             [Error |-> k, classified |-> FALSE])
    /\ failed' = failed \cup {s}
    /\ attempt' = 0
    /\ Goto(Catcher(s))
    /\ UNCHANGED <<input, completed, stored, notified>>
    /\ UNCHANGED handlerVars

\* A Task state without a catcher fails: the execution fails.
TaskUncaught(s) ==
    /\ status = "RUNNING" /\ pc = s /\ s \in TaskStates
    /\ PathsResolve(s, ctx)
    /\ Catcher(s) = "NONE"
    /\ failed' = failed \cup {s}
    /\ status' = "FAILED"
    /\ attempt' = 0
    /\ UNCHANGED <<input, ctx, pc, entered, completed, stored, notified>>
    /\ UNCHANGED handlerVars

\* A Pass state: its parameters become its result.
PassStep(s) ==
    /\ status = "RUNNING" /\ pc = s /\ s \in PassStates
    /\ PathsResolve(s, ctx)
    /\ ctx' = ApplyResult(ctx, PassResultPath(s), PassParameters(s, ctx))
    /\ completed' = completed \cup {s}
    /\ Goto(NextState(s))
    /\ UNCHANGED <<input, attempt, failed, stored, notified>>
    /\ UNCHANGED handlerVars

\* A Choice state: the first matching rule or the default.
ChoiceStep(s) ==
    /\ status = "RUNNING" /\ pc = s /\ s \in ChoiceStates
    /\ PathsResolve(s, ctx)
    /\ completed' = completed \cup {s}
    /\ Goto(IF s = "CheckVerificationType"
            THEN VerificationTypeChoice(ctx)
            ELSE ShouldNotifyChoice(ctx))
    /\ UNCHANGED <<input, ctx, attempt, failed, stored, notified>>
    /\ UNCHANGED handlerVars

\* A path the state reads does not resolve: the execution fails with a
\* runtime error.
RuntimeFail ==
    /\ status = "RUNNING"
    /\ ~ PathsResolve(pc, ctx)
    /\ status' = "FAILED"
    /\ UNCHANGED <<input, ctx, pc, attempt, entered, completed, failed, stored, notified>>
    /\ UNCHANGED handlerVars

\* The state machine timeout elapses: the execution is stopped.
Timeout ==
    /\ status = "RUNNING"
    /\ status' = "TIMED_OUT"
    /\ UNCHANGED <<input, ctx, pc, attempt, entered, completed, failed, stored, notified>>
    /\ UNCHANGED handlerVars

\* One step of the execution other than the timeout.
Step ==
    \/ \E s \in TaskStates : TaskSucceed(s)
    \/ \E s \in TaskStates : TaskRetry(s)
    \/ \E s \in TaskStates : TaskCaught(s)
    \/ \E s \in TaskStates : TaskUncaught(s)
    \/ \E s \in PassStates : PassStep(s)
    \/ \E s \in ChoiceStates : ChoiceStep(s)
    \/ RuntimeFail

Next == Step \/ Timeout

Spec == Init /\ [][Next]_vars

\* The delegated tasks eventually return and the executor keeps advancing.
FairSpec == Spec /\ WF_vars(Step)

----------------------------------------------------------------------------
(* The status API *)

\* No workflow execution takes part in the handling of a status request.
WorkflowIdle ==
    /\ input = [verificationType |-> "LAYOUT_VS_CHECKING",
                notificationEnabled |-> FALSE]
    /\ ctx = input
    /\ pc = "Initialize"
    /\ status = "NOT_STARTED"
    /\ attempt = 0
    /\ entered = <<>>
    /\ completed = {}
    /\ failed = {}
    /\ stored = <<>>
    /\ notified = 0

\* A request has arrived for a table and has not been answered yet.
StatusInit ==
    /\ WorkflowIdle
    /\ table \in Tables
    /\ event \in Events
    /\ response = NoResponse
    /\ tableQueries = <<>>
    /\ s3Reads = 0
    /\ raisedIn = {}

\* lambda_handler: the request is handled from beginning to end.
lambda_handler ==
    /\ response = NoResponse
    /\ \E tableOutcome \in TableOutcomes, s3Outcome \in S3Outcomes,
          dumpsOk \in BOOLEAN :
          LET r == HandlerResult(event, table, tableOutcome, s3Outcome, dumpsOk)
          IN  /\ response' = r.response
              /\ tableQueries' = r.queries
              /\ s3Reads' = r.reads
              /\ raisedIn' = r.raisedIn
    /\ UNCHANGED <<table, event>>
    /\ UNCHANGED workflowVars

StatusNext == lambda_handler

StatusSpec == StatusInit /\ [][StatusNext]_vars

----------------------------------------------------------------------------
(* Vocabulary of the properties *)

\* Has state s been entered in this execution.
Entered(s) == \E i \in 1..Len(entered) : entered[i] = s

\* State a was entered, and state b was entered after it.
EnteredBefore(a, b) ==
    \E i, j \in 1..Len(entered) : i < j /\ entered[i] = a /\ entered[j] = b

\* Number of times state s has been entered.
TimesEntered(s) == Cardinality({i \in 1..Len(entered) : entered[i] = s})

\* The execution has ended by reaching an end state or by a failure of a
\* state (not by the state machine timeout).
Ended == status \in {"SUCCEEDED", "FAILED"}

\* Length of conversationState.history (0 while there is no conversation).
HistoryLen(c) ==
    IF Has(c, "conversationState") THEN Len(c["conversationState"].history)
    ELSE 0

\* An analysis value is populated.
Populated(c, f) == Has(c, f) /\ c[f] # EmptyObj

\* The top-level context fields of the workflow.
ContextFields ==
    {"verificationContext", "historicalContext", "images", "systemPrompt",
     "currentPrompt", "turn1Response", "referenceAnalysis", "turn2Response",
     "checkingAnalysis", "conversationState", "error"}

----------------------------------------------------------------------------
(* Properties *)

\* C1: in every execution in which FetchImages completed successfully and
\* which has ended, whichever later stage failed, StoreResults has stored
\* exactly one result.
C1_StoreExactlyOnce ==
    (Ended /\ "FetchImages" \in completed) => Len(stored) = 1

\* C2: with verificationType PREVIOUS_VS_CURRENT, FetchImages is entered
\* only after FetchHistoricalVerification, itself entered after Initialize;
\* with LAYOUT_VS_CHECKING, FetchHistoricalVerification is never entered.
C2_BranchByType ==
    /\ (input.verificationType = "PREVIOUS_VS_CURRENT" /\ Entered("FetchImages"))
          => /\ EnteredBefore("Initialize", "FetchHistoricalVerification")
             /\ EnteredBefore("FetchHistoricalVerification", "FetchImages")
    /\ input.verificationType = "LAYOUT_VS_CHECKING"
          => ~ Entered("FetchHistoricalVerification")

C4_NotifyExactlyOnce ==
    /\ ~ input.notificationEnabled => notified = 0
    /\ ("Initialize" \in completed /\ input.notificationEnabled
            /\ status = "SUCCEEDED")
          => notified = 1 /\ EnteredBefore("StoreResults", "Notify")

\* C4 (amended): with notificationEnabled = false Notify is never invoked;
\* with true it is invoked at most once and only after StoreResults has
\* completed, and exactly once in every execution that completes
\* WorkflowComplete.
C4_NotifyGated ==
    /\ ~ input.notificationEnabled => notified = 0 /\ ~ Entered("Notify")
    /\ notified <= 1 /\ TimesEntered("Notify") <= 1
    /\ Entered("Notify")
          => /\ "StoreResults" \in completed
             /\ EnteredBefore("StoreResults", "Notify")
             /\ Len(stored) = 1
    /\ (input.notificationEnabled /\ "WorkflowComplete" \in completed)
          => notified = 1

\* C4 witness: a notification was sent and the workflow completed.
C4_Witness ==
    /\ input.notificationEnabled
    /\ "WorkflowComplete" \in completed
    /\ notified = 1

\* C5: when ExecuteTurn1 failed and the recovery stages succeeded, the
\* execution is at StoreResults with the finalResults of
\* FinalizeWithErrorTurn1 (verificationStatus FAILED) and no populated
\* referenceAnalysis in the context, and what StoreResults stores is that
\* result.
C5_Turn1FailureStored ==
    "ExecuteTurn1" \in failed =>
        /\ ~ Entered("HandleBedrockErrorTurn2")
        /\ ~ Entered("FinalizeResults")
        /\ "FinalizeWithErrorTurn1" \in completed =>
              /\ Entered("StoreResults")
              /\ "HandleBedrockErrorTurn1" \in completed
        /\ (pc = "StoreResults" /\ "StoreResults" \notin completed) =>
              /\ "FinalizeWithErrorTurn1" \in completed
              /\ Has(ctx, "finalResults")
              /\ ctx["finalResults"].verificationStatus = "FAILED"
              /\ ctx["finalResults"].referenceAnalysis = EmptyObj
              /\ ~ Populated(ctx, "referenceAnalysis")
              /\ ctx["conversationState"].referenceAnalysis = EmptyObj
        /\ \A i \in 1..Len(stored) :
              /\ stored[i].verificationStatus = "FAILED"
              /\ stored[i].referenceAnalysis = EmptyObj

\* C5 witness: ExecuteTurn1 failed and StoreResults stored the result.
C5_Witness ==
    /\ "ExecuteTurn1" \in failed
    /\ "StoreResults" \in completed
    /\ Len(stored) = 1

\* C6: when ExecuteTurn2 failed after a successful turn 1, the
\* referenceAnalysis of turn 1 is still in the context handed to
\* FinalizeWithErrorTurn2 and to StoreResults, and StoreResults is reached
\* with the finalResults of FinalizeWithErrorTurn2 (verificationStatus
\* FAILED).
C6_Turn2FailureKeepsAnalysis ==
    "ExecuteTurn2" \in failed =>
        /\ "ExecuteTurn1" \in completed
        /\ "ProcessTurn1Response" \in completed
        /\ ~ Entered("HandleBedrockErrorTurn1")
        /\ ~ Entered("FinalizeResults")
        /\ "FinalizeWithErrorTurn2" \in completed => Entered("StoreResults")
        /\ (status = "RUNNING"
                /\ pc \in {"HandleBedrockErrorTurn2", "FinalizeWithErrorTurn2",
                           "StoreResults"}) =>
              /\ Populated(ctx, "referenceAnalysis")
              /\ Has(ctx, "conversationState")
              /\ ctx["conversationState"].referenceAnalysis # EmptyObj
        /\ (pc = "StoreResults" /\ "StoreResults" \notin completed) =>
              /\ "FinalizeWithErrorTurn2" \in completed
              /\ Has(ctx, "finalResults")
              /\ ctx["finalResults"].verificationStatus = "FAILED"
              /\ ctx["finalResults"].referenceAnalysis # EmptyObj
        /\ \A i \in 1..Len(stored) :
              /\ stored[i].verificationStatus = "FAILED"
              /\ stored[i].referenceAnalysis # EmptyObj

\* C6 witness: ExecuteTurn2 failed and StoreResults stored the result.
C6_Witness ==
    /\ "ExecuteTurn2" \in failed
    /\ "StoreResults" \in completed
    /\ Len(stored) = 1

\* C7: checkingAnalysis is populated only where referenceAnalysis is
\* populated, turn 2 runs only after turn 1 completed, and the second
\* history entry comes into existence only when the first one existed
\* before.
C7_TurnOrder ==
    [][ /\ Populated(ctx', "checkingAnalysis")
              => Populated(ctx', "referenceAnalysis")
        /\ pc' \in {"ExecuteTurn2", "ProcessTurn2Response"}
              => {"ExecuteTurn1", "ProcessTurn1Response"} \subseteq completed'
        /\ (HistoryLen(ctx') >= 2 /\ HistoryLen(ctx) < 2)
              => HistoryLen(ctx) >= 1 ]_vars

\* C8: wherever conversationState exists, the length of its history
\* equals its currentTurn.
C8_HistoryLenIsTurn ==
    Has(ctx, "conversationState") =>
        Len(ctx["conversationState"].history)
            = ctx["conversationState"].currentTurn

\* C9: no stage removes a context field: a field present before a step is
\* present after it whenever a later stage is still to take the context
\* as its input.
C9_NoFieldRemoved ==
    [][ status' = "RUNNING" =>
            \A f \in ContextFields : Has(ctx, f) => Has(ctx', f) ]_vars

\* C9 witness: the context after the root-level result of
\* HandleBedrockErrorTurn2, with everything written before it.
C9_Witness ==
    /\ status = "RUNNING"
    /\ "HandleBedrockErrorTurn2" \in completed
    /\ \A f \in ContextFields \ {"turn2Response", "checkingAnalysis"} :
          Has(ctx, f)

\* C10: verificationContext is written only by Initialize, keeps its
\* value through every later stage, and the verificationId read at the
\* end is the one Initialize assigned.
C10_VerificationContextImmutable ==
    [][ /\ (Has(ctx, "verificationContext") /\ Has(ctx', "verificationContext"))
              => ctx'["verificationContext"] = ctx["verificationContext"]
        /\ (~ Has(ctx, "verificationContext") /\ Has(ctx', "verificationContext"))
              => pc = "Initialize"
        /\ (Has(ctx, "verificationContext") /\ ~ Has(ctx', "verificationContext"))
              => /\ pc = "WorkflowComplete"
                 /\ ctx'["verificationId"]
                       = ctx["verificationContext"].verificationId ]_vars

\* C10 witness: the workflow completed and reports the assigned id.
C10_Witness ==
    /\ "WorkflowComplete" \in completed
    /\ Has(ctx, "verificationId")
    /\ ctx["verificationId"] \in 1..MaxId

\* The states entered after state s was entered (s is entered at most once).
EnteredAfter(s) ==
    LET i == CHOOSE k \in 1..Len(entered) : entered[k] = s
    IN  SubSeq(entered, i + 1, Len(entered))

\* Sequence a is a prefix of sequence b.
IsPrefix(a, b) == Len(a) <= Len(b) /\ SubSeq(b, 1, Len(a)) = a

\* The recovery chain of turn n, as the specification describes it.
RecoveryChain(n) ==
    IF n = 1
    THEN <<"HandleBedrockErrorTurn1", "FinalizeWithErrorTurn1", "StoreResults">>
    ELSE <<"HandleBedrockErrorTurn2", "FinalizeWithErrorTurn2", "StoreResults">>

\* C11: after ExecuteTurnN failed, the states entered are exactly
\* HandleBedrockErrorTurnN, FinalizeWithErrorTurnN and StoreResults, in
\* that order, and nothing is entered after StoreResults (no ShouldNotify,
\* Notify or WorkflowComplete on a recovery path).
C11_RecoveryEndsAtStore ==
    /\ "ExecuteTurn1" \in failed
          => IsPrefix(EnteredAfter("ExecuteTurn1"), RecoveryChain(1))
    /\ "ExecuteTurn2" \in failed
          => IsPrefix(EnteredAfter("ExecuteTurn2"), RecoveryChain(2))

\* The early-failure marker of a pre-data-collection stage.
MarkerOf(s) ==
    CASE s = "Initialize" -> "HandleInitializationError"
      [] s = "FetchHistoricalVerification" -> "HandleHistoricalFetchError"
      [] s = "FetchImages" -> "HandleFetchImagesError"

\* The stages before data collection is complete.
EarlyStages == {"Initialize", "FetchHistoricalVerification", "FetchImages"}

\* The stages that finalize, store or notify.
ResultStages ==
    {"FinalizeResults", "FinalizeWithErrorTurn1", "FinalizeWithErrorTurn2",
     "StoreResults", "Notify"}

\* C12: when Initialize, FetchHistoricalVerification or FetchImages failed,
\* the only state entered afterwards is that stage's own marker, which
\* writes status FAILED and its reason under error and ends the execution;
\* no finalize stage, StoreResults or Notify is ever entered and nothing is
\* stored or notified.
C12_EarlyFailureMarked ==
    \A s \in EarlyStages :
        s \in failed =>
            /\ EnteredAfter(s) = <<MarkerOf(s)>>
            /\ pc = MarkerOf(s)
            /\ \A r \in ResultStages : ~ Entered(r)
            /\ stored = <<>> /\ notified = 0
            /\ status # "FAILED"
            /\ MarkerOf(s) \in completed =>
                  /\ status = "SUCCEEDED"
                  /\ Has(ctx, "error")
                  /\ ctx["error"] = ErrorMarkerParameters(MarkerOf(s))
                  /\ ctx["error"].status = "FAILED"

\* C12 witness: FetchImages failed and its marker ended the execution.
C12_Witness ==
    /\ "FetchImages" \in failed
    /\ "HandleFetchImagesError" \in completed
    /\ status = "SUCCEEDED"

\* C13: an execution that timed out after FetchImages completed has been
\* routed to a FinalizeWithError stage and has stored exactly one result.
C13_TimeoutPersists ==
    (status = "TIMED_OUT" /\ "FetchImages" \in completed) =>
        /\ Entered("FinalizeWithErrorTurn1") \/ Entered("FinalizeWithErrorTurn2")
        /\ Len(stored) = 1

\* The three categories of terminal output.
CategoryCompleted == {"ExecuteTurn1", "ExecuteTurn2"} \subseteq completed

CategoryFailedPartial ==
    /\ "ExecuteTurn1" \in failed \/ "ExecuteTurn2" \in failed
    /\ Len(stored) = 1
    /\ stored[1].verificationStatus = "FAILED"

CategoryFailedEarly == failed \cap EarlyStages # {} /\ stored = <<>>

\* The top-level status marker COMPLETED is in the terminal output.
MarkedCompleted == Has(ctx, "status") /\ ctx["status"] = "COMPLETED"

\* C14: the terminal output of an execution that reached an end state is
\* in exactly one of the three categories, and an execution in which a
\* turn failed does not end with the top-level status marker of an
\* execution in which both turns succeeded.
C14_CategoriesDistinguishable ==
    status = "SUCCEEDED" =>
        /\ \/ CategoryCompleted /\ ~ CategoryFailedPartial /\ ~ CategoryFailedEarly
           \/ ~ CategoryCompleted /\ CategoryFailedPartial /\ ~ CategoryFailedEarly
           \/ ~ CategoryCompleted /\ ~ CategoryFailedPartial /\ CategoryFailedEarly
        /\ CategoryCompleted => MarkedCompleted
        /\ CategoryFailedPartial => ~ MarkedCompleted

\* The stages executed so far: the states entered, without the two Choice
\* states, which are branches and not stages.
StagesExecuted == SelectSeq(entered, LAMBDA s : s \notin ChoiceStates)

\* The stage sequence of a complete layout-vs-checking run with
\* notification.
LayoutRunStages ==
    <<"Initialize", "FetchImages", "PrepareSystemPrompt",
      "InitializeConversationState", "PrepareTurn1Prompt", "ExecuteTurn1",
      "ProcessTurn1Response", "UpdateConversationStateAfterTurn1",
      "PrepareTurn2Prompt", "ExecuteTurn2", "ProcessTurn2Response",
      "UpdateConversationStateAfterTurn2", "FinalizeResults", "StoreResults",
      "Notify", "WorkflowComplete">>

\* C15: an execution with verificationType LAYOUT_VS_CHECKING and
\* notificationEnabled = true in which no task fails executes a prefix of
\* the layout run sequence while it runs, and when it has ended it has
\* executed the whole sequence and completed WorkflowComplete.
C15_LayoutRunSequence ==
    (input.verificationType = "LAYOUT_VS_CHECKING"
        /\ input.notificationEnabled /\ failed = {}) =>
        /\ IsPrefix(StagesExecuted, LayoutRunStages)
        /\ Ended =>
              /\ StagesExecuted = LayoutRunStages
              /\ "WorkflowComplete" \in completed

\* The designated terminal states.
TerminalStates == {"WorkflowComplete"} \cup ErrorMarkers

\* C16: an execution that has stopped, by reaching an end state or by the
\* failure of a stage, has stopped in WorkflowComplete or in one of the
\* three early-failure markers.
C16_StopsInTerminalState == Ended => pc \in TerminalStates

\* conversationState.currentTurn of a context that has a conversation.
CurrentTurn(c) == c["conversationState"].currentTurn

\* C17: wherever conversationState exists maxTurns is 2; currentTurn
\* starts at 0 when InitializeConversationState creates the conversation,
\* never decreases, and increases only by one, at
\* UpdateConversationStateAfterTurn1 (to 1) and
\* UpdateConversationStateAfterTurn2 (to 2).
C17_CurrentTurnCountsUp ==
    [][ Has(ctx', "conversationState") =>
            /\ ctx'["conversationState"].maxTurns = 2
            /\ CurrentTurn(ctx') \in {0, 1, 2}
            /\ ~ Has(ctx, "conversationState") =>
                  /\ pc = "InitializeConversationState"
                  /\ CurrentTurn(ctx') = 0
            /\ Has(ctx, "conversationState") =>
                  /\ CurrentTurn(ctx') \in {CurrentTurn(ctx), CurrentTurn(ctx) + 1}
                  /\ CurrentTurn(ctx') = CurrentTurn(ctx) + 1
                        <=> /\ pc' # pc
                            /\ pc \in {"UpdateConversationStateAfterTurn1",
                                       "UpdateConversationStateAfterTurn2"}
                  /\ "UpdateConversationStateAfterTurn2" \in completed'
                        => CurrentTurn(ctx') = 2 ]_vars

\* C17 witness: the conversation reached its second turn.
C17_Witness ==
    /\ Has(ctx, "conversationState")
    /\ CurrentTurn(ctx) = 2
    /\ "UpdateConversationStateAfterTurn2" \in completed

----------------------------------------------------------------------------
(* The status API: method gate, verification id, lookup *)

\* Has the request been answered.
Answered == response # NoResponse

\* The 200 answer to a preflight request: empty body, CORS headers.
PreflightResponse ==
    [statusCode |-> 200, headers |-> CorsHeaders, body |-> [empty |-> TRUE]]

\* An error answer with the CORS headers.
ErrorResponse(status_code, error, message) ==
    create_error_response(status_code, error, message, CorsHeaders)

\* C18: the method gate comes first.  A request whose method is OPTIONS is
\* answered 200 with an empty body and the CORS headers, a request whose
\* method is neither OPTIONS nor GET is answered 405 'Method not allowed',
\* and in both cases the table is not queried (and no S3 object is read),
\* whatever parameters the request carries.
C18_MethodGateFirst ==
    Answered =>
        /\ event.httpMethod = "OPTIONS" =>
              /\ response = PreflightResponse
              /\ tableQueries = <<>>
              /\ s3Reads = 0
        /\ event.httpMethod \notin {"OPTIONS", "GET"} =>
              /\ response = ErrorResponse(405, "Method not allowed",
                                          "Only GET requests are supported")
              /\ tableQueries = <<>>
              /\ s3Reads = 0

\* A POST request carrying the id of a stored verification is answered 405.
C18_Witness ==
    /\ Answered
    /\ event.httpMethod = "POST"
    /\ ExtractVerificationId(event) = "verif-1"
    /\ table["verif-1"] # <<>>
    /\ response.statusCode = 405
    /\ tableQueries = <<>>

\* The verificationId entry of the path parameters and of the query string
\* parameters of a request (NoneVal when there is none).
PathId(e) == DictGet(e.pathParameters, "verificationId")
QueryId(e) == DictGet(e.queryStringParameters, "verificationId")

\* C19: a GET request with no non-empty verificationId in the path
\* parameters and none in the query string is answered 400 'Missing
\* parameter' without a table query; the query string id is used only when
\* the path id is absent or empty: a non-empty path id is the key queried,
\* and the query string id is the key queried otherwise.
C19_MissingParameter ==
    (Answered /\ event.httpMethod = "GET") =>
        /\ (~ Truthy(PathId(event)) /\ ~ Truthy(QueryId(event))) =>
              /\ response =
                    ErrorResponse(400, "Missing parameter",
                        "verificationId path or query parameter is required")
              /\ tableQueries = <<>>
              /\ s3Reads = 0
        /\ Truthy(PathId(event)) => tableQueries = <<PathId(event)>>
        /\ (~ Truthy(PathId(event)) /\ Truthy(QueryId(event))) =>
              tableQueries = <<QueryId(event)>>

\* A GET request whose path id is empty and whose query string has other
\* parameters only is answered 400.
C19_Witness ==
    /\ Answered
    /\ event.httpMethod = "GET"
    /\ PathId(event) = ""
    /\ DictTruthy(event.queryStringParameters)
    /\ QueryId(event) = NoneVal
    /\ response.statusCode = 400
    /\ tableQueries = <<>>

\* C20: a GET request with a verification id for which the table query
\* returns no items is answered 404 'Verification not found', and no S3
\* object is read; 404 is the answer to such requests only.
C20_NotFound ==
    LET id == ExtractVerificationId(event)
    IN  (Answered /\ event.httpMethod = "GET" /\ Truthy(id)) =>
            /\ ("query" \notin raisedIn /\ table[id] = <<>>) =>
                  /\ response =
                        ErrorResponse(404, "Verification not found",
                            "No verification found for verificationId")
                  /\ tableQueries = <<id>>
                  /\ s3Reads = 0
            /\ response.statusCode = 404 => table[id] = <<>>

\* A GET request for an id without a record is answered 404 while the table
\* holds a completed record of another id with a valid S3 path.
C20_Witness ==
    /\ Answered
    /\ event.httpMethod = "GET"
    /\ ExtractVerificationId(event) = "verif-2"
    /\ table["verif-2"] = <<>>
    /\ table["verif-1"] # <<>>
    /\ table["verif-1"][1].currentStatus = "COMPLETED"
    /\ table["verif-1"][1].turn2ProcessedPath.text = "s3://bucket/turn2.md"
    /\ response.statusCode = 404
    /\ s3Reads = 0

----------------------------------------------------------------------------
(* The status API: overall status, S3 content, responses *)

\* The request was answered 200 with a status body built from a record.
StatusReturned ==
    /\ Answered
    /\ event.httpMethod = "GET"
    /\ response.statusCode = 200

\* The record the status body was built from.
RecordReturned == table[ExtractVerificationId(event)][1]

\* C21: the overall status of a status body is one of COMPLETED, RUNNING,
\* FAILED and currentStatus takes precedence: COMPLETED gives COMPLETED;
\* RUNNING, TURN1_COMPLETED, TURN2_RUNNING, PROCESSING give RUNNING; FAILED,
\* ERROR give FAILED; for any other currentStatus the verificationStatus
\* decides, RUNNING when it is PENDING or empty and COMPLETED otherwise.
C21_OverallStatus ==
    StatusReturned =>
        LET cs == RecordReturned.currentStatus
            vs == RecordReturned.verificationStatus
            st == response.body.status
            running == {"RUNNING", "TURN1_COMPLETED", "TURN2_RUNNING",
                        "PROCESSING"}
            failing == {"FAILED", "ERROR"}
        IN  /\ st \in {"COMPLETED", "RUNNING", "FAILED"}
            /\ cs = "COMPLETED" => st = "COMPLETED"
            /\ cs \in running => st = "RUNNING"
            /\ cs \in failing => st = "FAILED"
            /\ cs \notin {"COMPLETED"} \cup running \cup failing =>
                  st = IF vs \in {"PENDING", ""} THEN "RUNNING"
                       ELSE "COMPLETED"

\* A record with an unknown currentStatus and a verdict is reported
\* COMPLETED.
C21_Witness ==
    /\ StatusReturned
    /\ RecordReturned.currentStatus = "INITIALIZED"
    /\ RecordReturned.verificationStatus = "CORRECT"
    /\ response.body.status = "COMPLETED"

----------------------------------------------------------------------------
(* Error transitions, finalization, history, reads, termination *)

\* The Bedrock turns and the stages of their recovery.
Turns == {1, 2}
ExecuteTurn(n) == IF n = 1 THEN "ExecuteTurn1" ELSE "ExecuteTurn2"
HandleBedrockErrorTurn(n) ==
    IF n = 1 THEN "HandleBedrockErrorTurn1" ELSE "HandleBedrockErrorTurn2"

\* ExecuteTurnN fails in this step.
TurnFails(n) ==
    /\ pc = ExecuteTurn(n)
    /\ ExecuteTurn(n) \notin failed
    /\ ExecuteTurn(n) \in failed'

\* C22: when ExecuteTurnN fails the next stage is HandleBedrockErrorTurnN,
\* and its input is the context of ExecuteTurnN with the error descriptor
\* added at error: every other field is present and unchanged.
C22_ErrorTransitionFrame ==
    [][ \A n \in Turns :
          TurnFails(n) =>
              /\ pc' = HandleBedrockErrorTurn(n)
              /\ DOMAIN ctx' = DOMAIN ctx \cup {"error"}
              /\ \A f \in DOMAIN ctx \ {"error"} : ctx'[f] = ctx[f]
              /\ ctx'["error"].Error \in ErrorKinds ]_vars

\* ExecuteTurn2 failed and its handler holds the turn 1 analysis, the
\* current prompt and the error.
C22_Witness ==
    /\ pc = "HandleBedrockErrorTurn2"
    /\ status = "RUNNING"
    /\ "ExecuteTurn2" \in failed
    /\ "HandleBedrockErrorTurn2" \notin completed
    /\ Has(ctx, "error")
    /\ Has(ctx, "referenceAnalysis")
    /\ Has(ctx, "currentPrompt")
    /\ Has(ctx, "conversationState")

\* The states of the graph.
States == TaskStates \cup PassStates \cup ChoiceStates

\* C23: no state of the graph is entered more than once; a state that
\* failed and has a catcher was forwarded to its handler exactly once and
\* is left for good; after ExecuteTurnN failed neither state that invokes
\* invoke_bedrock is entered again.
C23_NoReentry ==
    /\ \A s \in States : TimesEntered(s) <= 1
    /\ \A s \in failed :
          Catcher(s) # "NONE" =>
              /\ pc # s
              /\ TimesEntered(Catcher(s)) = 1
    /\ \A n \in Turns :
          ExecuteTurn(n) \in failed =>
              /\ pc \notin {"ExecuteTurn1", "ExecuteTurn2"}
              /\ \A i \in 1..Len(EnteredAfter(ExecuteTurn(n))) :
                    EnteredAfter(ExecuteTurn(n))[i]
                        \notin {"ExecuteTurn1", "ExecuteTurn2"}

\* ExecuteTurn1 failed after a retry and the recovery chain ran to the end
\* of the execution.
C23_Witness ==
    /\ "ExecuteTurn1" \in failed
    /\ status = "SUCCEEDED"
    /\ Entered("HandleBedrockErrorTurn1")
    /\ Entered("FinalizeWithErrorTurn1")
    /\ Entered("StoreResults")
    /\ ~ Entered("ExecuteTurn2")

\* The stages that write finalResults.
Finalizers ==
    {"FinalizeResults", "FinalizeWithErrorTurn1", "FinalizeWithErrorTurn2"}

\* C24: at most one of FinalizeResults, FinalizeWithErrorTurn1 and
\* FinalizeWithErrorTurn2 runs, finalResults is in the context only after
\* one of them has written it, and StoreResults runs only after one of them
\* has written finalResults earlier in the execution (and stores once).
C24_OneFinalResult ==
    /\ Cardinality({s \in Finalizers : Entered(s)}) <= 1
    /\ Has(ctx, "finalResults") => Cardinality(Finalizers \cap completed) = 1
    /\ Entered("StoreResults") =>
          /\ Cardinality(Finalizers \cap completed) = 1
          /\ \E s \in Finalizers \cap completed :
                EnteredBefore(s, "StoreResults")
    /\ Len(stored) <= 1

\* Turn 2 failed, FinalizeWithErrorTurn2 wrote finalResults and
\* StoreResults stored it; FinalizeResults did not run.
C24_Witness ==
    /\ "FinalizeWithErrorTurn2" \in completed
    /\ "StoreResults" \in completed
    /\ Len(stored) = 1
    /\ ~ Entered("FinalizeResults")
    /\ ~ Entered("FinalizeWithErrorTurn1")

\* C25: conversationState.referenceAnalysis is empty in every state before
\* ProcessTurn1Response has completed and conversationState.checkingAnalysis
\* in every state before ProcessTurn2Response has completed; after
\* UpdateConversationStateAfterTurnN the conversationState copy equals the
\* top-level analysis written by ProcessTurnNResponse.
C25_AnalysisAfterProcessing ==
    Has(ctx, "conversationState") =>
        LET cs == ctx["conversationState"]
        IN  /\ "ProcessTurn1Response" \notin completed =>
                  cs.referenceAnalysis = EmptyObj
            /\ "ProcessTurn2Response" \notin completed =>
                  cs.checkingAnalysis = EmptyObj
            /\ "UpdateConversationStateAfterTurn1" \in completed =>
                  /\ Populated(ctx, "referenceAnalysis")
                  /\ cs.referenceAnalysis = ctx["referenceAnalysis"]
            /\ "UpdateConversationStateAfterTurn2" \in completed =>
                  /\ Populated(ctx, "checkingAnalysis")
                  /\ cs.checkingAnalysis = ctx["checkingAnalysis"]

\* After UpdateConversationStateAfterTurn2 the conversation holds the two
\* analyses.
C25_Witness ==
    /\ "UpdateConversationStateAfterTurn2" \in completed
    /\ Has(ctx, "conversationState")
    /\ ctx["conversationState"].referenceAnalysis = ctx["referenceAnalysis"]
    /\ ctx["conversationState"].checkingAnalysis = ctx["checkingAnalysis"]
    /\ ctx["conversationState"].checkingAnalysis # EmptyObj

\* The Pass states that update the conversation after a turn.
UpdateStates ==
    {"UpdateConversationStateAfterTurn1", "UpdateConversationStateAfterTurn2"}

\* C26: conversationState.history is append-only: each of
\* UpdateConversationStateAfterTurn1 and UpdateConversationStateAfterTurn2
\* appends exactly one turn record, the history before the update is a
\* prefix of the history after it, and after turn 2 the history is the flat
\* sequence of turn1Response and turn2Response.
C26_HistoryAppendOnly ==
    [][ (/\ pc \in UpdateStates
         /\ pc \in completed' \ completed
         /\ Has(ctx, "conversationState")
         /\ Has(ctx', "conversationState")) =>
            LET before == ctx["conversationState"].history
                after == ctx'["conversationState"].history
            IN  /\ Len(after) = Len(before) + 1
                /\ IsPrefix(before, after)
                /\ pc = "UpdateConversationStateAfterTurn2" =>
                      after = <<ctx["turn1Response"], ctx["turn2Response"]>>
      ]_vars

\* C27: every context path read by the state the execution is in (Pass
\* parameters, Task payload, Choice variable) is present in the context,
\* having been written by an earlier state of the path taken: no state
\* fails on a path that was never populated.
C27_ReadPathsPresent == status = "RUNNING" => PathsResolve(pc, ctx)

\* C28: every execution terminates: when every task eventually returns a
\* result or a failure after its bounded retries and the executor keeps
\* advancing, the execution eventually stops running, and a stopped
\* execution has no successor.
C28_Terminates == <>(status # "RUNNING")

\* A complete run through the historical branch with a notification has
\* stopped after the longest path of the graph.
C28_Witness ==
    /\ status = "SUCCEEDED"
    /\ pc = "WorkflowComplete"
    /\ failed = {}
    /\ Entered("FetchHistoricalVerification")
    /\ Entered("Notify")
    /\ \A s \in States \ (ErrorMarkers \cup
                          {"HandleBedrockErrorTurn1", "HandleBedrockErrorTurn2",
                           "FinalizeWithErrorTurn1", "FinalizeWithErrorTurn2"}) :
          TimesEntered(s) = 1

\* The body of the status answer has the llmAnalysis field.
HasLlmAnalysis == "llmAnalysis" \in DOMAIN response.body

\* C29: the S3 object at turn2ProcessedPath is read only when the overall
\* status is COMPLETED and turn2ProcessedPath is non-empty, and llmAnalysis
\* is in the response only in that case; a failed S3 read or an invalid
\* s3:// path is not propagated: the answer is still 200 with the other
\* fields and without llmAnalysis.
C29_S3ReadGuarded ==
    /\ (Answered /\ s3Reads > 0) =>
          /\ event.httpMethod = "GET"
          /\ Truthy(ExtractVerificationId(event))
          /\ table[ExtractVerificationId(event)] # <<>>
          /\ determine_overall_status(RecordReturned.currentStatus,
                                      RecordReturned.verificationStatus)
                = "COMPLETED"
          /\ Truthy(RecordReturned.turn2ProcessedPath.text)
    /\ StatusReturned =>
          LET path == RecordReturned.turn2ProcessedPath
              invalid == ~ path.s3scheme \/ ~ path.hasKey
          IN  /\ HasLlmAnalysis =>
                    /\ response.body.status = "COMPLETED"
                    /\ Truthy(path.text)
                    /\ s3Reads = 1
                    /\ "get_object" \notin raisedIn
              /\ invalid => (s3Reads = 0 /\ ~ HasLlmAnalysis)
              /\ \A f \in {"verificationId", "message", "status",
                           "currentStatus", "verificationStatus",
                           "s3References"} : f \in DOMAIN response.body
    /\ (Answered /\ "get_object" \in raisedIn /\ "dumps" \notin raisedIn) =>
          /\ response.statusCode = 200
          /\ ~ HasLlmAnalysis
          /\ response.body.status = "COMPLETED"

\* The S3 read of a completed record failed and the request was still
\* answered 200, without llmAnalysis.
C29_Witness ==
    /\ StatusReturned
    /\ raisedIn = {"get_object"}
    /\ s3Reads = 1
    /\ response.body.status = "COMPLETED"
    /\ ~ HasLlmAnalysis

\* The status codes of the handler's responses.
StatusCodes == {200, 400, 404, 405, 500}

\* The calls whose exception lambda_handler turns into a 500 answer.
FatalCalls == {"query", "dumps"}

\* C30: the handler never raises: every invocation returns one response,
\* whose statusCode is one of 200, 400, 404, 405, 500 and which carries the
\* CORS headers; an exception raised while querying the table or building
\* the response yields 500 'Internal server error' (and nothing else
\* does), and 200 with a status body is returned only when a record was
\* found.
C30_AlwaysAnswers ==
    [][ /\ ~ Answered
        /\ Answered'
        /\ response'.statusCode \in StatusCodes
        /\ response'.headers = CorsHeaders
        /\ (raisedIn' \cap FatalCalls # {}) <=>
              response' = ErrorResponse(500, "Internal server error",
                                        "Failed to process request")
        /\ (response'.statusCode = 200 /\ event.httpMethod # "OPTIONS") =>
              /\ event.httpMethod = "GET"
              /\ Truthy(ExtractVerificationId(event))
              /\ table[ExtractVerificationId(event)] # <<>>
              /\ response'.body.verificationId = ExtractVerificationId(event)
              /\ response'.body.status \in {"COMPLETED", "RUNNING", "FAILED"}
      ]_vars

\* The table query for a stored verification raised and the request was
\* answered 500.
C30_Witness ==
    /\ Answered
    /\ event.httpMethod = "GET"
    /\ raisedIn = {"query"}
    /\ tableQueries = <<"verif-1">>
    /\ table["verif-1"] # <<>>
    /\ response.statusCode = 500
    /\ response.headers = CorsHeaders

====
